---- MODULE Spec2Model ----
(***************************************************************************)
(* AutoPopulate.populate of datajoint/autopopulate.py (the second, live    *)
(* definition, lines 72-117; the first one, lines 40-69, is overridden by  *)
(* it in the class body).  Each populate call is a process walking through *)
(* the statements of the method; the storage session (conn.transaction(),  *)
(* TransactionError) and the target relation live outside the file and are *)
(* modelled from the specification: snapshot transactions whose commit     *)
(* raises the retryable conflict when another commit wrote the same key.   *)
(***************************************************************************)
EXTENDS Integers, Sequences, FiniteSets, TLC

\* ---- bounds ----
NumKeys == 2
MaxCalls == 2

\* ---- program constants ----
max_attempts == 10

Keys == 1..NumKeys
Procs == {1, 2}

VARIABLES
    eligible,     \* populate_relation: the set of candidate keys
    rows,         \* target relation: committed rows per key
    pc,           \* position of each populate call
    args,         \* what the call was made with (lines 72, 81-90)
    work,         \* unpopulated.project(), materialised at line 95
    idx,          \* position of the for loop in work
    attempts,     \* iterations of range(max_attempts) started for the key
    tx,           \* the transaction scope held by the call
    errs,         \* error_list
    raised,       \* the error that left populate, if any
    kstate,       \* per-key progress (Pending, Attempting, ...)
    invoked,      \* keys whose _make_tuples was called in this call
    stored,       \* keys whose row this call committed
    calls         \* populate calls made so far by the process

vars == <<eligible, rows, pc, args, work, idx, attempts, tx, errs, raised,
          kstate, invoked, stored, calls>>

\* ---- errors: the exception class, its text, what the text names ----
NoError == [type |-> "None", text |-> "", names |-> {}]
AssertionError == [type |-> "AssertionError", text |-> "NotImplemented", names |-> {}]
NotRelationError ==
    [type |-> "DataJointError",
     text |-> "Autopopulate is a mixin for Relation and must therefore subclass Relation",
     names |-> {}]
InvalidRelationError ==
    [type |-> "DataJointError", text |-> "Invalid populate_relation value", names |-> {}]
\* lines 108-109: the text is formatted with self.__class__ alone
GiveUpError ==
    [type |-> "DataJointError",
     text |-> "%s._make_tuples failed after multiple attempts, giving up",
     names |-> {"class"}]
TransactionError == [type |-> "TransactionError", text |-> "retryable conflict", names |-> {"culprit"}]
UserError == [type |-> "UserError", text |-> "raised by _make_tuples", names |-> {}]
ResolveError == [type |-> "ResolveError", text |-> "raised by tr_err.resolve", names |-> {}]
LogError == [type |-> "LogError", text |-> "raised by a logging step", names |-> {}]
\* line 114: print(error) itself raises (str(error) raises, stdout is closed)
PrintError == [type |-> "PrintError", text |-> "raised by print(error)", names |-> {}]
\* an exception outside the Exception hierarchy (KeyboardInterrupt, SystemExit)
Interrupt == [type |-> "KeyboardInterrupt", text |-> "not an Exception", names |-> {}]

\* what the callback, the resolution, a logging call and print may raise
\* besides returning: an error of their own, one of the conflict's class, or
\* an exception that is no Exception (a conflict raised by the callback is
\* MakeTuplesConflict)
CallbackErrors == {UserError, Interrupt}
ResolveErrors == {ResolveError, TransactionError, Interrupt}
LogErrors == {LogError, TransactionError, Interrupt}
PrintErrors == {PrintError, TransactionError, Interrupt}

\* ---- relations ----
NoRestriction == [given |-> FALSE, keys |-> {}]
\* no restriction, or one that leaves some key out (one naming every key
\* restricts nothing)
Restrictions ==
    {NoRestriction} \cup {[given |-> TRUE, keys |-> S] : S \in (SUBSET Keys) \ {Keys}}

\* rel & restriction; restricting by None keeps the relation
Restrict(rel, r) == IF r.given THEN rel \cap r.keys ELSE rel

\* key in self.target, evaluated on a view of the target
InTarget(view, k) == view[k] > 0

\* (self.populate_relation - self.target) & restriction, without the difference
UnpopulatedKeepsTarget(el, view, r) == Restrict(el, r)

\* line 92: (self.populate_relation - self.target) & restriction
Unpopulated(el, view, r) == Restrict({k \in el : ~InTarget(view, k)}, r)

Min(S) == CHOOSE x \in S : \A y \in S : x <= y

RECURSIVE Project(_)
\* unpopulated.project(): the keys, each once, in primary-key order
Project(S) == IF S = {} THEN <<>> ELSE <<Min(S)>> \o Project(S \ {Min(S)})

NoTx == [open |-> 0, snap |-> [k \in Keys |-> 0], writes |-> {}, ran |-> FALSE]
\* debug is the interpreter's __debug__: FALSE when run with -O, which
\* compiles assert statements away
NoArgs == [suppress_errors |-> FALSE, restriction |-> NoRestriction,
           reserve_jobs |-> FALSE, isRelation |-> TRUE, isOperand |-> TRUE,
           debug |-> TRUE]

\* the query is evaluated again for every key
CurKeyRequeried(p) ==
    LET now == Unpopulated(eligible, rows, args[p].restriction)
    IN  IF now # {} THEN Min(now) ELSE work[p][idx[p]]

\* line 95: the loop variable, taken from the list materialised at the start
CurKey(p) == work[p][idx[p]]
WorkKeys(p) == {work[p][i] : i \in 1..Len(work[p])}

Init ==
    /\ eligible \in SUBSET Keys
    /\ rows \in [Keys -> {0, 1}]
    /\ \A k \in Keys : rows[k] > 0 => k \in eligible
    /\ pc = [p \in Procs |-> "idle"]
    /\ args = [p \in Procs |-> NoArgs]
    /\ work = [p \in Procs |-> <<>>]
    /\ idx = [p \in Procs |-> 1]
    /\ attempts = [p \in Procs |-> 0]
    /\ tx = [p \in Procs |-> NoTx]
    /\ errs = [p \in Procs |-> <<>>]
    /\ raised = [p \in Procs |-> NoError]
    /\ kstate = [p \in Procs |-> [k \in Keys |-> "None"]]
    /\ invoked = [p \in Procs |-> {}]
    /\ stored = [p \in Procs |-> {}]
    /\ calls = [p \in Procs |-> 0]

\* ---- the storage session (conn.transaction(), outside this file) ----
\* beginTransaction: the scope reads the target as committed at its start
StartTransaction(t, view) ==
    [open |-> t.open + 1, snap |-> view, writes |-> {}, ran |-> FALSE]

\* commit or cancel: the scope is closed
CloseTransaction(t) ==
    [open |-> t.open - 1, snap |-> NoTx.snap, writes |-> {}, ran |-> FALSE]

\* the target after the commit of a scope's writes
CommitRows(view, t) == [k \in Keys |-> view[k] + (IF k \in t.writes THEN 1 ELSE 0)]

\* the storage's conflict detection at commit: a key this scope wrote was
\* committed by somebody else since the scope began
WriteConflict(view, t) == \E k \in t.writes : view[k] # t.snap[k]

\* ---- the with statement of line 99 ----
\* an exception leaves the block and the transaction stays open
ExitOnErrorLeaks(t) == t

\* an exception leaves the block: the transaction is released (cancelled)
ExitOnError(t) == CloseTransaction(t)

\* the block is left normally: the transaction is released by its commit
ExitNormally(t) == CloseTransaction(t)

\* the membership test is left out
KeyNeverPopulated(t, k) == TRUE

\* ---- line 100: the membership test inside the transaction ----
KeyNotPopulated(t, k) == ~InTarget(t.snap, k)

\* ---- line 95: the for loop moves to the next key, or ends ----
AfterKey(p) == IF idx[p] + 1 <= Len(work[p]) THEN "begin" ELSE "log_done"

\* one iteration too many
MoreAttemptsOffByOne(n) == n <= max_attempts

\* ---- line 97: range(max_attempts) still yields an iteration ----
MoreAttempts(n) == n < max_attempts

\* the iteration is not counted
SameAttempt(n) == n

\* ---- line 97: range(max_attempts) yields its next value ----
NextAttempt(n) == n + 1

\* the iterations of the key before are carried over
KeepRange(n) == n

\* ---- line 97: every key gets a new range(max_attempts) ----
NewRange(n) == 0

\* ---- line 104: except TransactionError, for what lines 99-102 raise ----
CaughtAsConflict(e) == e.type = "TransactionError"

\* ---- line 110: except Exception catches the subclasses of Exception ----
Caught(e) == e.type # "KeyboardInterrupt"

\* ---- lines 112, 115: the caught error itself is re-raised or appended ----
Reraised(e) == e

\* the conflict is retried without its resolution
AfterConflictRetries == "begin"

\* ---- lines 104-105: the inner handler catches the conflict ----
AfterConflict == "resolve"

\* every error is recorded, whatever the flag
AlwaysSuppressed(sup) == TRUE

\* ---- line 111: if not suppress_errors: raise ----
Suppressed(sup) == sup

\* the error is printed and not appended
RecordNothing(list, k, e) == list

\* ---- line 115: error_list.append((key, error)) ----
Record(list, k, e) == Append(list, [key |-> k, error |-> e])

\* the check of populate_relation is missing
CallFailureNoOperandCheck(reserve_jobs, isRelation, isOperand, debug) ==
    IF debug /\ reserve_jobs THEN AssertionError
    ELSE IF ~isRelation THEN NotRelationError
    ELSE NoError

\* ---- lines 81-90: the checks made before any work; the assert of ----
\* ---- line 81 exists only when the interpreter runs with __debug__ ----
CallFailure(reserve_jobs, isRelation, isOperand, debug) ==
    IF debug /\ reserve_jobs THEN AssertionError
    ELSE IF ~isRelation THEN NotRelationError
    ELSE IF ~isOperand THEN InvalidRelationError
    ELSE NoError

\* the inner handler of line 104 is entered: the transaction, if one was
\* opened, has been released by the with statement
ToResolve(p, wasOpen) ==
    /\ pc' = [pc EXCEPT ![p] = AfterConflict]
    /\ tx' = [tx EXCEPT ![p] = IF wasOpen THEN ExitOnError(tx[p]) ELSE tx[p]]
    /\ UNCHANGED <<eligible, rows, args, work, idx, attempts, errs, raised,
                   kstate, stored, calls>>

\* error e leaves populate
Leave(p, e) ==
    /\ pc' = [pc EXCEPT ![p] = "raised"]
    /\ raised' = [raised EXCEPT ![p] = e]
    /\ UNCHANGED <<errs, idx, attempts>>

\* lines 110-115: error e for the current key reaches the outer handler,
\* which takes Exceptions only; with suppress_errors it prints the error
\* (line 114), and when the print raises, that error leaves populate from
\* inside the handler; else it appends (line 115) and the loop goes on
Handle(p, e, wasOpen) ==
    /\ tx' = [tx EXCEPT ![p] = IF wasOpen THEN ExitOnError(tx[p]) ELSE tx[p]]
    /\ kstate' = [kstate EXCEPT ![p][CurKey(p)] = "Failed"]
    /\ \/ /\ ~Caught(e)
          /\ Leave(p, e)
       \/ /\ Caught(e)
          /\ ~Suppressed(args[p].suppress_errors)
          /\ Leave(p, Reraised(e))
       \/ /\ Caught(e)
          /\ Suppressed(args[p].suppress_errors)
          /\ \E pe \in PrintErrors : Leave(p, pe)
       \/ /\ Caught(e)
          /\ Suppressed(args[p].suppress_errors)
          /\ errs' = [errs EXCEPT ![p] = Record(@, CurKey(p), Reraised(e))]
          /\ pc' = [pc EXCEPT ![p] = AfterKey(p)]
          /\ idx' = [idx EXCEPT ![p] = @ + 1]
          /\ attempts' = [attempts EXCEPT ![p] = NewRange(@)]
          /\ UNCHANGED raised
    /\ UNCHANGED <<eligible, rows, args, work, stored, calls>>

\* lines 92-95: the work list is computed and the loop entered
StartWork(p, r) ==
    LET w == Project(Unpopulated(eligible, rows, r))
    IN  /\ pc' = [pc EXCEPT ![p] = IF Len(w) > 0 THEN "begin" ELSE "log_done"]
        /\ work' = [work EXCEPT ![p] = w]
        /\ kstate' = [kstate EXCEPT ![p] =
              [k \in Keys |-> IF \E i \in 1..Len(w) : w[i] = k
                              THEN "Pending" ELSE "None"]]

\* the interpreter modes told apart for a call: -O differs from the default
\* only in the assert of line 81, which only reserve_jobs=True reaches
Builds(reserve_jobs) == IF reserve_jobs THEN BOOLEAN ELSE {TRUE}

\* ---- lines 72-95: the call, its checks and the work list ----
PopulateWith(p, reserve_jobs, isRelation, isOperand, debug) ==
    /\ pc[p] = "idle"
    /\ calls[p] = 0
    /\ \E sup \in BOOLEAN, r \in Restrictions :
        LET failure == CallFailure(reserve_jobs, isRelation, isOperand, debug)
        IN  /\ args' = [args EXCEPT ![p] =
                  [suppress_errors |-> sup, restriction |-> r,
                   reserve_jobs |-> reserve_jobs, isRelation |-> isRelation,
                   isOperand |-> isOperand, debug |-> debug]]
            /\ calls' = [calls EXCEPT ![p] = 1]
            /\ IF failure # NoError
               THEN /\ pc' = [pc EXCEPT ![p] = "raised"]
                    /\ raised' = [raised EXCEPT ![p] = failure]
                    /\ UNCHANGED <<work, kstate>>
               ELSE /\ StartWork(p, r)
                    /\ UNCHANGED raised
    /\ UNCHANGED <<eligible, rows, idx, attempts, tx, errs, invoked, stored>>

\* populate called with any arguments, under either interpreter mode
Populate(p) ==
    \E reserve_jobs \in BOOLEAN, isRelation \in BOOLEAN, isOperand \in BOOLEAN :
        \E debug \in Builds(reserve_jobs) :
            PopulateWith(p, reserve_jobs, isRelation, isOperand, debug)

\* populate called with any arguments under the default interpreter mode
PopulateDefault(p) ==
    \E reserve_jobs \in BOOLEAN, isRelation \in BOOLEAN, isOperand \in BOOLEAN :
        PopulateWith(p, reserve_jobs, isRelation, isOperand, TRUE)

\* populate called with arguments that pass the checks of lines 81-90
PopulateLegal(p) == PopulateWith(p, FALSE, TRUE, TRUE, TRUE)

\* ---- line 99: the transaction is opened ----
Begin(p) ==
    /\ pc[p] = "begin"
    /\ MoreAttempts(attempts[p])
    /\ attempts' = [attempts EXCEPT ![p] = NextAttempt(@)]
    /\ tx' = [tx EXCEPT ![p] = StartTransaction(@, rows)]
    /\ kstate' = [kstate EXCEPT ![p][CurKey(p)] = "Attempting"]
    /\ pc' = [pc EXCEPT ![p] = "check"]
    /\ UNCHANGED <<eligible, rows, args, work, idx, errs, raised, invoked,
                   stored, calls>>

\* line 99 raises the retryable conflict: nothing was opened
BeginConflict(p) ==
    /\ pc[p] = "begin"
    /\ MoreAttempts(attempts[p])
    /\ attempts' = [attempts EXCEPT ![p] = NextAttempt(@)]
    /\ kstate' = [kstate EXCEPT ![p][CurKey(p)] = "Attempting"]
    /\ pc' = [pc EXCEPT ![p] = AfterConflict]
    /\ UNCHANGED <<eligible, rows, args, work, idx, errs, raised, invoked,
                   stored, calls, tx>>

\* ---- lines 107-109: the attempts are used up ----
GiveUp(p) ==
    /\ pc[p] = "begin"
    /\ ~MoreAttempts(attempts[p])
    /\ Handle(p, GiveUpError, FALSE)
    /\ UNCHANGED invoked

\* ---- line 100 ----
Check(p) ==
    /\ pc[p] = "check"
    /\ pc' = [pc EXCEPT ![p] = IF KeyNotPopulated(tx[p], CurKey(p))
                               THEN "log_populating" ELSE "commit"]
    /\ UNCHANGED <<eligible, rows, args, work, idx, attempts, tx, errs, raised,
                   kstate, invoked, stored, calls>>

CheckConflict(p) ==
    /\ pc[p] = "check"
    /\ ToResolve(p, TRUE)
    /\ UNCHANGED invoked

\* ---- line 101 ----
LogPopulating(p) ==
    /\ pc[p] = "log_populating"
    /\ pc' = [pc EXCEPT ![p] = "make"]
    /\ UNCHANGED <<eligible, rows, args, work, idx, attempts, tx, errs, raised,
                   kstate, invoked, stored, calls>>

\* line 101 raises inside the with block and the inner try: a conflict
\* goes to the handler of line 104, anything else to the one of line 110
LogPopulatingFails(p) ==
    /\ pc[p] = "log_populating"
    /\ \E e \in LogErrors :
          IF CaughtAsConflict(e) THEN ToResolve(p, TRUE) ELSE Handle(p, e, TRUE)
    /\ UNCHANGED invoked

\* the callback's insert is committed on its own, outside the transaction
MakeTuplesWritesThrough(p) ==
    /\ pc[p] = "make"
    /\ rows' = [rows EXCEPT ![CurKey(p)] = @ + 1]
    /\ tx' = [tx EXCEPT ![p].ran = TRUE]
    /\ invoked' = [invoked EXCEPT ![p] = @ \cup {CurKey(p)}]
    /\ pc' = [pc EXCEPT ![p] = "commit"]
    /\ UNCHANGED <<eligible, args, work, idx, attempts, errs, raised,
                   kstate, stored, calls>>

\* ---- line 102: the callback; it writes its row or nothing ----
MakeTuples(p) ==
    /\ pc[p] = "make"
    /\ \E written \in {{}, {CurKey(p)}} :
         tx' = [tx EXCEPT ![p].writes = written, ![p].ran = TRUE]
    /\ invoked' = [invoked EXCEPT ![p] = @ \cup {CurKey(p)}]
    /\ pc' = [pc EXCEPT ![p] = "commit"]
    /\ UNCHANGED <<eligible, rows, args, work, idx, attempts, errs, raised,
                   kstate, stored, calls>>

MakeTuplesError(p) ==
    /\ pc[p] = "make"
    /\ invoked' = [invoked EXCEPT ![p] = @ \cup {CurKey(p)}]
    /\ \E e \in CallbackErrors : Handle(p, e, TRUE)

MakeTuplesConflict(p) ==
    /\ pc[p] = "make"
    /\ invoked' = [invoked EXCEPT ![p] = @ \cup {CurKey(p)}]
    /\ ToResolve(p, TRUE)

\* ---- line 99, leaving the block normally: commit, then break (line 103) ----
Commit(p) ==
    /\ pc[p] = "commit"
    /\ ~WriteConflict(rows, tx[p])
    /\ rows' = CommitRows(rows, tx[p])
    /\ stored' = [stored EXCEPT ![p] = @ \cup tx[p].writes]
    /\ tx' = [tx EXCEPT ![p] = ExitNormally(tx[p])]
    /\ kstate' = [kstate EXCEPT ![p][CurKey(p)] =
                      IF tx[p].ran THEN "Committed" ELSE "Skipped"]
    /\ pc' = [pc EXCEPT ![p] = AfterKey(p)]
    /\ idx' = [idx EXCEPT ![p] = @ + 1]
    /\ attempts' = [attempts EXCEPT ![p] = NewRange(@)]
    /\ UNCHANGED <<eligible, args, work, errs, raised, invoked, calls>>

\* the commit raises the retryable conflict, whatever the storage's reason
CommitConflict(p) ==
    /\ pc[p] = "commit"
    /\ ToResolve(p, TRUE)
    /\ UNCHANGED invoked

\* the commit raises it because another commit wrote the same key
CommitWriteConflict(p) ==
    /\ WriteConflict(rows, tx[p])
    /\ CommitConflict(p)

\* ---- line 105 ----
Resolve(p) ==
    /\ pc[p] = "resolve"
    /\ pc' = [pc EXCEPT ![p] = "log_conflict"]
    /\ UNCHANGED <<eligible, rows, args, work, idx, attempts, tx, errs, raised,
                   kstate, invoked, stored, calls>>

ResolveFails(p) ==
    /\ pc[p] = "resolve"
    /\ \E e \in ResolveErrors : Handle(p, e, FALSE)
    /\ UNCHANGED invoked

\* ---- line 106, then the next iteration of line 97 ----
LogConflict(p) ==
    /\ pc[p] = "log_conflict"
    /\ pc' = [pc EXCEPT ![p] = "begin"]
    /\ UNCHANGED <<eligible, rows, args, work, idx, attempts, tx, errs, raised,
                   kstate, invoked, stored, calls>>

LogConflictFails(p) ==
    /\ pc[p] = "log_conflict"
    /\ \E e \in LogErrors : Handle(p, e, FALSE)
    /\ UNCHANGED invoked

\* ---- lines 116-117 ----
LogDone(p) ==
    /\ pc[p] = "log_done"
    /\ pc' = [pc EXCEPT ![p] = "done"]
    /\ UNCHANGED <<eligible, rows, args, work, idx, attempts, tx, errs, raised,
                   kstate, invoked, stored, calls>>

\* line 116 is outside every try: its error leaves populate
LogDoneFails(p) ==
    /\ pc[p] = "log_done"
    /\ \E e \in LogErrors : Leave(p, e)
    /\ UNCHANGED <<eligible, rows, args, work, tx, kstate, invoked, stored, calls>>

\* ---- the caller calls populate again, with the same arguments ----
Repopulate(p) ==
    /\ pc[p] \in {"done", "raised"}
    /\ CallFailure(args[p].reserve_jobs, args[p].isRelation, args[p].isOperand,
                   args[p].debug) = NoError
    /\ calls[p] < MaxCalls
    /\ calls' = [calls EXCEPT ![p] = @ + 1]
    /\ StartWork(p, args[p].restriction)
    /\ idx' = [idx EXCEPT ![p] = 1]
    /\ attempts' = [attempts EXCEPT ![p] = NewRange(@)]
    /\ errs' = [errs EXCEPT ![p] = <<>>]
    /\ raised' = [raised EXCEPT ![p] = NoError]
    /\ invoked' = [invoked EXCEPT ![p] = {}]
    /\ stored' = [stored EXCEPT ![p] = {}]
    /\ UNCHANGED <<eligible, rows, args, tx>>

\* ---- another client of the storage commits a row for a missing key ----
OtherWriter ==
    /\ \E p \in Procs : pc[p] \notin {"idle", "done", "raised"}
    /\ \E k \in eligible :
        /\ rows[k] = 0
        /\ rows' = [rows EXCEPT ![k] = 1]
    /\ UNCHANGED <<eligible, pc, args, work, idx, attempts, tx, errs, raised,
                   kstate, invoked, stored, calls>>

\* ---- one populate call at a time, in an environment that may fail; ----
\* ---- the interpreter runs in its default mode (SpecLive and SpecElig ----
\* ---- have the calls made under -O)                                  ----
Next ==
    \/ OtherWriter
    \/ \E p \in {1} :
        \/ PopulateDefault(p)
        \/ Begin(p)
        \/ BeginConflict(p)
        \/ GiveUp(p)
        \/ Check(p)
        \/ CheckConflict(p)
        \/ LogPopulating(p)
        \/ LogPopulatingFails(p)
        \/ MakeTuples(p)
        \/ MakeTuplesError(p)
        \/ MakeTuplesConflict(p)
        \/ Commit(p)
        \/ CommitConflict(p)
        \/ Resolve(p)
        \/ ResolveFails(p)
        \/ LogConflict(p)
        \/ LogConflictFails(p)
        \/ LogDone(p)
        \/ LogDoneFails(p)
        \/ Repopulate(p)

Spec == Init /\ [][Next]_vars

\* ---- two populate calls racing on one storage, both passing the checks ----
\* ---- of lines 81-90; each meets the conflicts the other causes, and the ----
\* ---- first one also every other conflict and failure, up to giving up  ----
NextConc ==
    \/ \E p \in Procs :
        \/ PopulateLegal(p)
        \/ Begin(p)
        \/ Check(p)
        \/ LogPopulating(p)
        \/ MakeTuples(p)
        \/ MakeTuplesError(p)
        \/ Commit(p)
        \/ CommitWriteConflict(p)
        \/ Resolve(p)
        \/ LogConflict(p)
        \/ LogDone(p)
    \/ \E p \in {1} :
        \/ BeginConflict(p)
        \/ GiveUp(p)
        \/ CheckConflict(p)
        \/ LogPopulatingFails(p)
        \/ MakeTuplesConflict(p)
        \/ CommitConflict(p)
        \/ ResolveFails(p)
        \/ LogConflictFails(p)
        \/ LogDoneFails(p)

SpecConc == Init /\ [][NextConc]_vars

\* ---- upstream data arrives: a key becomes eligible ----
NewEligible ==
    /\ \E p \in Procs : pc[p] \notin {"idle", "done", "raised"}
    /\ \E k \in Keys \ eligible : eligible' = eligible \cup {k}
    /\ UNCHANGED <<rows, pc, args, work, idx, attempts, tx, errs, raised,
                   kstate, invoked, stored, calls>>

\* ---- one populate call while the eligible relation grows ----
NextElig ==
    \/ NewEligible
    \/ \E p \in {1} :
        \/ Populate(p)
        \/ Begin(p)
        \/ Check(p)
        \/ CheckConflict(p)
        \/ LogPopulating(p)
        \/ MakeTuples(p)
        \/ MakeTuplesError(p)
        \/ Commit(p)
        \/ Resolve(p)
        \/ LogConflict(p)
        \/ GiveUp(p)
        \/ LogDone(p)

SpecElig == Init /\ [][NextElig]_vars

\* ---- one populate call, every operation of which returns or raises ----
NextLive ==
    \E p \in {1} :
        \/ Populate(p)
        \/ Begin(p)
        \/ BeginConflict(p)
        \/ GiveUp(p)
        \/ Check(p)
        \/ CheckConflict(p)
        \/ LogPopulating(p)
        \/ LogPopulatingFails(p)
        \/ MakeTuples(p)
        \/ MakeTuplesError(p)
        \/ MakeTuplesConflict(p)
        \/ Commit(p)
        \/ CommitConflict(p)
        \/ Resolve(p)
        \/ ResolveFails(p)
        \/ LogConflict(p)
        \/ LogConflictFails(p)
        \/ LogDone(p)
        \/ LogDoneFails(p)

\* the call is single-threaded: while a statement is left to execute, and
\* the operation it waits for returns or raises, it is executed
SpecLive == Init /\ [][NextLive]_vars /\ WF_vars(NextLive)

\* ======================= the claims =======================

ErrCount(p, k) == Cardinality({i \in 1..Len(errs[p]) : errs[p][i].key = k})
ErrorsOf(p) == {errs[p][i].error : i \in 1..Len(errs[p])}
Surfaced(p) == {raised[p]} \cup ErrorsOf(p)
InBlock(p) == pc[p] \in {"check", "log_populating", "make", "commit"}
\* the error a step hands to the caller or to the error list
NewError(p) ==
    IF raised'[p] # raised[p] THEN raised'[p]
    ELSE IF Len(errs'[p]) > Len(errs[p]) THEN errs'[p][Len(errs'[p])].error
    ELSE NoError

\* C1 as stated: after a suppressing populate has returned, every key of the
\* work list is in the target or exactly once in the error list.
C1_Original ==
    \A p \in Procs :
        (pc[p] = "done" /\ args[p].suppress_errors) =>
            \A k \in WorkKeys(p) : InTarget(rows, k) \/ ErrCount(p, k) = 1

\* C1 amended: after a suppressing populate has returned, every key of the
\* work list is in the target, or exactly once in the error list, or its
\* callback returned normally without writing its row and that attempt was
\* committed; no key is in the error list twice, and a key is in it exactly
\* when it failed.
C1_EveryKeyAccounted ==
    \A p \in Procs :
        (pc[p] = "done" /\ args[p].suppress_errors) =>
            \A k \in WorkKeys(p) :
                /\ ErrCount(p, k) <= 1
                /\ (ErrCount(p, k) = 1) <=> (kstate[p][k] = "Failed")
                /\ \/ InTarget(rows, k)
                   \/ ErrCount(p, k) = 1
                   \/ (kstate[p][k] = "Committed" /\ k \in invoked[p] /\ k \notin stored[p])

\* a suppressing call has returned with one key failed and recorded and
\* another committed by a callback that wrote nothing
C1_Witness ==
    \E p \in Procs :
        /\ pc[p] = "done"
        /\ args[p].suppress_errors
        /\ \E k1, k2 \in WorkKeys(p) :
            /\ ErrCount(p, k1) = 1
            /\ kstate[p][k2] = "Committed"
            /\ ~InTarget(rows, k2)

\* C2: two populate calls racing on a key never commit its row twice, and a
\* call leaves the key to the other only when the row is there exactly once.
C2_CommittedOnce ==
    \A k \in Keys :
        /\ rows[k] <= 1
        /\ \A p \in Procs : kstate[p][k] = "Skipped" => rows[k] = 1
        /\ Cardinality({p \in Procs : k \in stored[p]}) <= 1

\* both calls ran the callback for the same key; one committed the row, the
\* other met the conflict, retried and found the key populated
C2_Witness ==
    \E k \in Keys, p, q \in Procs :
        /\ p # q
        /\ k \in stored[p]
        /\ k \in invoked[q]
        /\ kstate[q][k] = "Skipped"

\* C3 as stated: the give-up error names the key and the attempt count, and
\* comes after exactly 10 attempts.
C3_Original ==
    \A p \in Procs :
        /\ attempts[p] <= 10
        /\ \A e \in Surfaced(p) :
            e.text = GiveUpError.text => {"key", "attempts"} \subseteq e.names

\* C3 amended: no key is attempted an 11th time; the give-up error arises
\* only at the loop head after exactly 10 attempts of the key, and it is a
\* DataJointError whose text names the class, not the key or the count;
\* giving up fails the key and leaves the target as it is.
C3_GiveUpAfterTen ==
    [][\A p \in Procs :
        /\ attempts'[p] <= 10
        /\ (pc[p] = "begin" /\ attempts[p] = 10 /\ kstate'[p] # kstate[p]) =>
            /\ rows' = rows
            /\ kstate'[p][CurKey(p)] = "Failed"
            /\ NewError(p) \in {GiveUpError} \cup PrintErrors
        /\ NewError(p) = GiveUpError =>
            /\ attempts[p] = 10
            /\ pc[p] = "begin"
            /\ NewError(p).type = "DataJointError"
            /\ NewError(p).names = {"class"}]_vars

\* the tenth attempt has ended in a conflict and the give-up error has left
\* populate
C3_Witness ==
    \E p \in Procs : raised[p] = GiveUpError /\ attempts[p] = 10

\* C4: without suppress_errors every failure of a key leaves populate at
\* once; after a callback error the keys before it are done and their
\* committed rows are in the target, the keys after it were never attempted,
\* and no transaction is open.
C4_AbortOnError ==
    \A p \in Procs :
        ~args[p].suppress_errors =>
            /\ errs[p] = <<>>
            /\ \A k \in Keys :
                kstate[p][k] = "Failed" =>
                    /\ pc[p] = "raised"
                    /\ raised[p] # NoError
                    /\ idx[p] <= Len(work[p])
                    /\ CurKey(p) = k
            /\ (pc[p] = "raised" /\ raised[p] = UserError) =>
                /\ tx[p].open = 0
                /\ CurKey(p) \in invoked[p]
                /\ \A i \in 1..Len(work[p]) :
                    /\ i < idx[p] =>
                        /\ kstate[p][work[p][i]] \in {"Committed", "Skipped"}
                        /\ work[p][i] \in stored[p] => InTarget(rows, work[p][i])
                    /\ i > idx[p] =>
                        /\ kstate[p][work[p][i]] = "Pending"
                        /\ work[p][i] \notin invoked[p]

\* the callback of the first of two keys raised: the error left populate and
\* the second key is still pending
C4_Witness ==
    \E p \in Procs :
        /\ ~args[p].suppress_errors
        /\ pc[p] = "raised"
        /\ raised[p] = UserError
        /\ Len(work[p]) = 2
        /\ idx[p] = 1
        /\ kstate[p][work[p][2]] = "Pending"

\* C5 as stated: with suppress_errors, once a callback error is recorded
\* populate does not raise, no key is recorded twice, and at the return every
\* key was attempted and every key whose callback ran without a recorded
\* error is committed.
C5_Original ==
    \A p \in Procs :
        (args[p].suppress_errors /\ UserError \in ErrorsOf(p)) =>
            /\ pc[p] # "raised"
            /\ \A k \in WorkKeys(p) : ErrCount(p, k) <= 1
            /\ pc[p] = "done" =>
                \A k \in WorkKeys(p) :
                    /\ kstate[p][k] # "Pending"
                    /\ (k \in invoked[p] /\ ErrCount(p, k) = 0) =>
                           kstate[p][k] \in {"Committed", "Skipped"}

\* C6 as stated: the second of two successive calls has an empty work list
\* and calls the callback for no key.
C6_Original ==
    \A p \in Procs : calls[p] >= 2 => (work[p] = <<>> /\ invoked[p] = {})

\* C6 amended: the work list of the second call is the keys of the first
\* work list that are still absent from the target (those that failed, were
\* never reached, or whose callback wrote nothing), and the callback is
\* called for keys of the work list only.
C6_SecondWorkList ==
    [][\A p \in Procs :
        /\ (calls[p] >= 1 /\ calls'[p] = calls[p] + 1) =>
              work'[p] = Project({k \in WorkKeys(p) : ~InTarget(rows, k)})
        /\ invoked'[p] \subseteq {work'[p][i] : i \in 1..Len(work'[p])}]_vars

\* a second call is running: a key populated meanwhile is not in its work
\* list, a key that is still missing is
C6_Witness ==
    \E p \in Procs :
        /\ calls[p] = 2
        /\ work[p] # <<>>
        /\ \E k \in Restrict(eligible, args[p].restriction) :
              InTarget(rows, k) /\ k \notin WorkKeys(p)

\* C7: a call holds no transaction outside the with block and exactly one
\* inside it, so each one opened is released once on every way out.
C7_OneTransaction ==
    \A p \in Procs :
        /\ tx[p].open \in {0, 1}
        /\ (tx[p].open = 1) <=> InBlock(p)

\* the callback raised inside the block and populate raised: nothing is open
C7_Witness ==
    \E p \in Procs : pc[p] = "raised" /\ raised[p] = UserError /\ tx[p].open = 0

\* C8 as stated: a conflict in an attempt that is not the last one is always
\* followed by the resolution and a new attempt, and surfaces nothing.
C8_Original ==
    [][\A p \in Procs :
        (pc[p] \in {"resolve", "log_conflict"} /\ attempts[p] < 10) =>
            /\ pc'[p] \in {"resolve", "log_conflict", "begin"}
            /\ errs'[p] = errs[p]
            /\ raised'[p] = raised[p]]_vars

\* C8 amended: a conflict raised inside the attempt is caught: the
\* transaction is released and nothing surfaces; the resolution is applied
\* once and then the log line written; when both return a new attempt on the
\* same key starts from opening a transaction, and that is the only way an
\* attempt is repeated; when the resolution or the log line raises, whatever
\* it raises (an error of the conflict's class included), the key fails and
\* is not retried; an error of the conflict's class surfaces only when it is
\* raised outside the attempt: by the resolution, by the log lines of 106
\* and 116, or by the print of the outer handler.
C8_ConflictRecovered ==
    [][\A p \in Procs :
        /\ (pc'[p] = "resolve" /\ pc[p] # "resolve") =>
              (InBlock(p) \/ pc[p] = "begin") /\ tx'[p].open = 0 /\ NewError(p) = NoError
        /\ (pc[p] = "resolve" /\ pc'[p] # "resolve") =>
              \/ pc'[p] = "log_conflict"
              \/ /\ NewError(p) \in ResolveErrors \cup PrintErrors
                 /\ kstate'[p][CurKey(p)] = "Failed"
                 /\ (idx'[p] = idx[p] + 1 \/ pc'[p] = "raised")
        /\ (pc[p] = "log_conflict" /\ pc'[p] # "log_conflict") =>
              \/ (pc'[p] = "begin" /\ idx'[p] = idx[p] /\ attempts'[p] = attempts[p])
              \/ /\ NewError(p) \in LogErrors \cup PrintErrors
                 /\ kstate'[p][CurKey(p)] = "Failed"
                 /\ (idx'[p] = idx[p] + 1 \/ pc'[p] = "raised")
        /\ (pc'[p] = "begin" /\ pc[p] # "begin" /\ idx'[p] = idx[p] /\ calls'[p] = calls[p]) =>
              pc[p] = "log_conflict"
        /\ (InBlock(p) \/ pc[p] = "begin") =>
              \/ NewError(p) # TransactionError
              \/ args[p].suppress_errors /\ pc'[p] = "raised" /\ errs'[p] = errs[p]]_vars

\* a second attempt on a key is in its transaction after a conflict
C8_Witness ==
    \E p \in Procs : attempts[p] = 2 /\ pc[p] = "check" /\ Surfaced(p) = {NoError}

\* C9: a call whose populate_relation is no relational operand (and that
\* passes the checks of lines 81 and 85) raises the invalid-relation error with no transaction
\* opened, no callback called, no work list and nothing committed, whatever
\* suppress_errors is.
C9_InvalidRelationFirst ==
    \A p \in Procs :
        (/\ pc[p] # "idle"
         /\ ~args[p].isOperand
         /\ args[p].isRelation
         /\ ~(args[p].reserve_jobs /\ args[p].debug)) =>
            /\ pc[p] = "raised"
            /\ raised[p] = InvalidRelationError
            /\ tx[p] = NoTx
            /\ attempts[p] = 0
            /\ work[p] = <<>>
            /\ invoked[p] = {}
            /\ stored[p] = {}
            /\ errs[p] = <<>>

\* a suppressing call with work to do was refused for its populate_relation
C9_Witness ==
    \E p \in Procs :
        /\ raised[p] = InvalidRelationError
        /\ args[p].suppress_errors
        /\ Unpopulated(eligible, rows, args[p].restriction) # {}

\* C10 as stated: a failing logging step changes nothing, so its error is
\* never the one that leaves populate nor one recorded in the error list.
C10_Original ==
    \A p \in Procs : Surfaced(p) \cap {LogError, PrintError} = {}

\* C11 as stated: when the test inside the transaction finds the key
\* populated, the attempt always ends with the key done: no callback, the
\* transaction released, no further attempt, no error.
C11_Original ==
    [][\A p \in Procs :
        (pc[p] = "commit" /\ ~tx[p].ran /\ pc'[p] # "commit") =>
            /\ kstate'[p][CurKey(p)] = "Skipped"
            /\ NewError(p) = NoError
            /\ idx'[p] = idx[p] + 1]_vars

\* C11 amended: the membership test runs with the transaction open and
\* before the callback, which is reached only when the test found the key
\* absent; when it finds the key present the callback is not called in that
\* attempt and the transaction is released; when that release returns, the
\* key is done (skipped) with no further attempt, no error and no change of
\* the target; when the release raises the retryable conflict, the key is
\* retried like after any conflict.
C11_RecheckInsideTransaction ==
    [][\A p \in Procs :
        /\ (pc'[p] = "make" /\ pc[p] # "make") =>
              /\ pc[p] = "log_populating"
              /\ tx[p].open = 1
              /\ ~InTarget(tx[p].snap, CurKey(p))
        /\ (pc[p] = "check" /\ pc'[p] # "check") =>
              /\ tx[p].open = 1
              /\ \/ pc'[p] = "log_populating" /\ ~InTarget(tx[p].snap, CurKey(p))
                 \/ /\ pc'[p] = "commit"
                    /\ InTarget(tx[p].snap, CurKey(p))
                    /\ ~tx'[p].ran
                    /\ invoked'[p] = invoked[p]
                 \/ pc'[p] = "resolve"
        /\ (pc[p] = "commit" /\ ~tx[p].ran /\ pc'[p] # "commit") =>
              /\ invoked'[p] = invoked[p]
              /\ tx'[p].open = 0
              /\ rows' = rows
              /\ \/ /\ kstate'[p][CurKey(p)] = "Skipped"
                    /\ NewError(p) = NoError
                    /\ idx'[p] = idx[p] + 1
                    /\ attempts'[p] = 0
                 \/ pc'[p] = "resolve"]_vars

\* a call has returned having skipped a key another client populated: the
\* callback was never called for it and no error is recorded
C11_Witness ==
    \E p \in Procs, k \in Keys :
        /\ pc[p] = "done"
        /\ kstate[p][k] = "Skipped"
        /\ k \notin invoked[p]
        /\ ErrCount(p, k) = 0
        /\ InTarget(rows, k)

\* C12 as stated: an error of the callback that is no conflict cancels the
\* transaction and ends the key; that same error is what leaves populate
\* (non-suppressing) or is appended with the key (suppressing); the callback
\* is called only for the key being attempted, so never again for a failed
\* key.
C12_Original ==
    [][\A p \in Procs :
        /\ (pc[p] = "make" /\ pc'[p] \notin {"make", "commit", "resolve"}) =>
              /\ tx'[p].open = 0
              /\ kstate'[p][CurKey(p)] = "Failed"
              /\ CurKey(p) \in invoked'[p]
              /\ NewError(p) \in CallbackErrors
              /\ IF args[p].suppress_errors
                 THEN /\ errs'[p] = Append(errs[p], [key |-> CurKey(p), error |-> NewError(p)])
                      /\ raised'[p] = NoError
                      /\ idx'[p] = idx[p] + 1
                 ELSE /\ pc'[p] = "raised"
                      /\ errs'[p] = errs[p]
        /\ (invoked'[p] # invoked[p] /\ calls'[p] = calls[p]) =>
              /\ pc[p] = "make"
              /\ kstate[p][CurKey(p)] = "Attempting"
              /\ invoked'[p] = invoked[p] \cup {CurKey(p)}
        /\ \A k \in Keys :
              (kstate[p][k] = "Failed" /\ calls'[p] = calls[p]) => kstate'[p][k] = "Failed"]_vars

\* C13: the target changes only when a call commits a transaction in which
\* its callback ran and wrote; building the work list, a skip, an attempt
\* cancelled by a conflict or by an error and a give-up leave it alone; and
\* no transaction's view of the target holds a row that is not committed.
C13_TargetChangesAtCommit ==
    [][/\ rows' # rows =>
            \E p \in Procs :
                /\ pc[p] = "commit"
                /\ tx[p].ran
                /\ tx[p].writes # {}
                /\ rows' = CommitRows(rows, tx[p])
                /\ kstate'[p][CurKey(p)] = "Committed"
                /\ tx'[p].open = 0
       /\ \A p \in Procs :
            \/ rows' = rows
            \/ ~(\/ pc[p] = "idle" /\ pc'[p] # "idle"
                 \/ pc[p] = "commit" /\ ~tx[p].ran /\ pc'[p] # "commit"
                 \/ InBlock(p) /\ tx'[p].open = 0 /\ kstate'[p][CurKey(p)] # "Committed"
                 \/ pc[p] = "begin" /\ attempts[p] = 10 /\ kstate'[p] # kstate[p])
       /\ \A q \in Procs, k \in Keys : tx'[q].snap[k] <= rows'[k]]_vars

\* one call has given up on its first key, which is still absent from the
\* target, and holds an uncommitted row for its second key while the other
\* call's membership test on that key has found it absent
C13_Witness ==
    \E p, q \in Procs, k \in Keys :
        /\ p # q
        /\ Len(errs[p]) = 1
        /\ errs[p][1].error = GiveUpError
        /\ ~InTarget(rows, errs[p][1].key)
        /\ pc[p] = "commit"
        /\ k \in tx[p].writes
        /\ pc[q] = "log_populating"
        /\ CurKey(q) = k
        /\ ~InTarget(rows, k)

\* C14: the work list is computed once, when the call starts, as (eligible
\* minus target) restricted; it never changes afterwards, and only its keys
\* are ever attempted, written or handed to the callback, also when other
\* keys become eligible while the call runs.
C14_WorkListSnapshot ==
    [][\A p \in Procs :
        /\ (pc[p] = "idle" /\ pc'[p] \notin {"idle", "raised"}) =>
              work'[p] = Project(Unpopulated(eligible, rows, args'[p].restriction))
        /\ pc[p] # "idle" => work'[p] = work[p]
        /\ \A k \in Keys :
              k \notin {work'[p][i] : i \in 1..Len(work'[p])} =>
                  /\ kstate'[p][k] = "None"
                  /\ k \notin invoked'[p]
                  /\ k \notin tx'[p].writes
                  /\ k \notin stored'[p]]_vars

\* a call has worked through its list and returned while a key that became
\* eligible meanwhile is unpopulated and was never attempted
C14_Witness ==
    \E p \in Procs, k \in Keys :
        /\ pc[p] = "done"
        /\ work[p] # <<>>
        /\ k \in Unpopulated(eligible, rows, args[p].restriction)
        /\ k \notin WorkKeys(p)
        /\ kstate[p][k] = "None"

\* C15: within a call a key moves only Pending -> Attempting and
\* Attempting -> Committed, Skipped or Failed; a final state is never left;
\* an attempt is repeated only after a conflict, and never beyond the 10th.
C15_KeyStateMachine ==
    [][\A p \in Procs :
        /\ attempts'[p] <= 10
        /\ (kstate'[p] # kstate[p] /\ calls'[p] = calls[p]) =>
              \A k \in Keys :
                \/ kstate'[p][k] = kstate[p][k]
                \/ kstate[p][k] = "Pending" /\ kstate'[p][k] = "Attempting"
                \/ /\ kstate[p][k] = "Attempting"
                   /\ kstate'[p][k] \in {"Committed", "Skipped", "Failed"}
        /\ (pc'[p] = "begin" /\ pc[p] # "begin" /\ idx'[p] = idx[p] /\ calls'[p] = calls[p]) =>
              /\ pc[p] = "log_conflict"
              /\ kstate[p][CurKey(p)] = "Attempting"]_vars

\* a call has returned with one key committed and another failed
C15_Witness ==
    \E p \in Procs, k1, k2 \in Keys :
        /\ pc[p] = "done"
        /\ kstate[p][k1] = "Committed"
        /\ kstate[p][k2] = "Failed"

\* C16 as stated: when the attempts of a key are used up, the give-up error is
\* appended once with the key and the loop goes to the next key (suppressing
\* mode), or it leaves populate with every later key still pending
\* (non-suppressing mode); the target is left alone either way.
C16_Original ==
    [][\A p \in Procs :
        (pc[p] = "begin" /\ attempts[p] = 10 /\ kstate'[p] # kstate[p]) =>
            /\ NewError(p) = GiveUpError
            /\ rows' = rows
            /\ tx'[p].open = 0
            /\ kstate'[p][CurKey(p)] = "Failed"
            /\ IF args[p].suppress_errors
               THEN /\ errs'[p] = Append(errs[p], [key |-> CurKey(p), error |-> GiveUpError])
                    /\ ErrCount(p, CurKey(p)) = 0
                    /\ raised'[p] = NoError
                    /\ idx'[p] = idx[p] + 1
                    /\ attempts'[p] = 0
                    /\ pc'[p] = IF idx[p] < Len(work[p]) THEN "begin" ELSE "log_done"
               ELSE /\ pc'[p] = "raised"
                    /\ raised'[p] = GiveUpError
                    /\ errs'[p] = <<>>
                    /\ \A i \in 1..Len(work[p]) :
                          i > idx[p] =>
                              /\ kstate'[p][work[p][i]] = "Pending"
                              /\ work[p][i] \notin invoked'[p]]_vars

\* C17: the first attempt on every key of the work list starts with the
\* attempt counter at zero.
C17_BudgetPerKey ==
    \A p \in Procs :
        (pc[p] = "begin" /\ kstate[p][CurKey(p)] = "Pending") => attempts[p] = 0

\* the first key used all ten attempts and the second key is in its tenth
C17_Witness ==
    \E p \in Procs :
        /\ Len(errs[p]) = 1
        /\ errs[p][1].error = GiveUpError
        /\ idx[p] = 2
        /\ pc[p] = "check"
        /\ attempts[p] = 10

\* C18: a conflict raised at the opening of the transaction, at the
\* membership test, inside the block up to and in the callback, or at the
\* commit leaves no transaction
\* open, surfaces nothing, has used exactly one attempt of the key and is
\* followed by the resolution; nothing else ends an attempt without an
\* error or a commit.
C18_ConflictAnywhere ==
    [][\A p \in Procs :
        /\ (pc'[p] = "resolve" /\ pc[p] # "resolve") =>
              /\ pc[p] \in {"begin", "check", "log_populating", "make", "commit"}
              /\ tx'[p].open = 0
              /\ NewError(p) = NoError
              /\ idx'[p] = idx[p]
              /\ kstate'[p][CurKey(p)] = "Attempting"
              /\ attempts'[p] = attempts[p] + (IF pc[p] = "begin" THEN 1 ELSE 0)
              /\ attempts'[p] >= 1
        /\ (InBlock(p) /\ tx'[p].open = 0 /\ NewError(p) = NoError /\ idx'[p] = idx[p]) =>
              pc'[p] = "resolve"
        /\ (pc[p] = "begin" /\ attempts'[p] = attempts[p] + 1 /\ tx'[p].open = 0) =>
              pc'[p] = "resolve"]_vars

\* the fourth attempt on a key whose callback has run has ended in a
\* conflict that waits for its resolution
C18_Witness ==
    \E p \in Procs :
        /\ pc[p] = "resolve"
        /\ attempts[p] = 4
        /\ CurKey(p) \in invoked[p]
        /\ tx[p].open = 0

\* C19 as stated: an error raised by the resolution action ends the key: no retry,
\* no transaction open, the error appended with the key (suppressing mode)
\* or leaving populate (non-suppressing mode).
C19_Original ==
    [][\A p \in Procs :
        (pc[p] = "resolve" /\ pc'[p] \notin {"resolve", "log_conflict"}) =>
            /\ NewError(p) \in ResolveErrors
            /\ tx'[p].open = 0
            /\ kstate'[p][CurKey(p)] = "Failed"
            /\ IF args[p].suppress_errors
               THEN /\ errs'[p] = Append(errs[p], [key |-> CurKey(p), error |-> NewError(p)])
                    /\ raised'[p] = NoError
                    /\ idx'[p] = idx[p] + 1
                    /\ pc'[p] \in {"begin", "log_done"}
               ELSE /\ pc'[p] = "raised"
                    /\ errs'[p] = errs[p]]_vars

\* C20: a call that has started returns or raises; on the way no key is
\* attempted more than 10 times and the loop never goes back to a key, so
\* the attempts number at most 10 per key and 10 times the length of the
\* work list in all.
C20_Terminates ==
    /\ \A p \in Procs : (pc[p] # "idle") ~> (pc[p] \in {"done", "raised"})
    /\ [](\A p \in Procs : attempts[p] <= 10 /\ idx[p] <= Len(work[p]) + 1)
    /\ [][\A p \in Procs :
            /\ idx'[p] >= idx[p]
            /\ attempts'[p] > attempts[p] => (attempts'[p] = attempts[p] + 1 /\ idx'[p] = idx[p])
            /\ idx'[p] > idx[p] => idx'[p] = idx[p] + 1]_vars

\* every attempt on both keys ended in a conflict and the call has returned
\* with two give-up errors
C20_Witness ==
    \E p \in Procs :
        /\ pc[p] = "done"
        /\ Len(errs[p]) = 2
        /\ \A i \in 1..2 : errs[p][i].error = GiveUpError

====
